---- MODULE Spec2Model ----
(***************************************************************************)
(* The four diagram scripts of src/Architecture as a state machine.        *)
(*                                                                         *)
(* Each script is a straight-line program run inside a                     *)
(* `with Diagram(...)` block: node constructors, nested `with Cluster`     *)
(* blocks and edge operators (>> and -).  One step of the model executes   *)
(* one statement of the running script.  The graph the statements build    *)
(* (nodes, cluster tree, edge sequence) is the state; leaving the Diagram  *)
(* block renders it to <filename>.<outformat> in the working directory,    *)
(* which outlives the run.                                                 *)
(*                                                                         *)
(* The operators `Kind(label)`, `with Cluster(label)`, `a >> b`,           *)
(* `a - Edge(..) - b` and the exit of `with Diagram` are those of the      *)
(* diagrams package the scripts import:                                    *)
(*   - a node constructor creates a node with a fresh id and adds it to    *)
(*     the innermost open cluster, or to the diagram when none is open;    *)
(*   - entering a cluster records the enclosing cluster as its parent,     *)
(*     leaving it attaches it to the parent (or the diagram);              *)
(*   - a >> b appends the edge (a, b) drawn forward, a - b the edge (a, b) *)
(*     drawn without direction; a list on the right gives one edge per     *)
(*     element; an Edge(...) in between carries the attributes;            *)
(*   - the Diagram block renders on exit, also when the block is left by   *)
(*     an exception (Python runs __exit__ of every open `with`).           *)
(***************************************************************************)
EXTENDS Integers, Sequences, FiniteSets, TLC

VARIABLES
    phase,      \* "idle" | "building" | "done": where the script process is
    script,     \* the script being run ("" when idle)
    pc,         \* index of the next statement of the script
    nodes,      \* sequence of nodes [id, label, kind, cluster]
    clusters,   \* sequence of clusters [label, parent, nodes, subs]; id = index
    root,       \* the diagram's own body [nodes, subs]
    cur,        \* innermost open cluster, 0 when none
    edges,      \* sequence of edges [src, dst, dir, color, style, label]
    env,        \* the script's variables: name -> sequence of node ids
    err,        \* "none" | "body" (exception in the block) | "backend" (render failed)
    renders,    \* calls of render made by this run
    written,    \* output paths this run wrote
    files       \* working directory: output path -> image, or NoFile

vars == <<phase, script, pc, nodes, clusters, root, cur, edges, env, err,
          renders, written, files>>

graph == <<nodes, clusters, root, edges>>

----------------------------------------------------------------------------
(* Script names and the arguments of their Diagram(...) call.              *)

Fargate == "aws-fargate-architecture.py"
AwsObs == "aws_observability_diagram.py"
ObsSimple == "observability-architecture-simple.py"
ObsFull == "observability-architecture.py"

Scripts == {Fargate, AwsObs, ObsSimple, ObsFull}

DiagramArgs(s) ==
    CASE s = Fargate ->
           [title |-> "AWS Fargate Microservices Architecture",
            filename |-> "aws-fargate-architecture", outformat |-> "png"]
      [] s = AwsObs ->
           [title |-> "AWS Observability Architecture",
            filename |-> "aws_observability_diagram", outformat |-> "png"]
      [] s = ObsSimple ->
           [title |-> "AWS Observability Architecture",
            filename |-> "observability-architecture", outformat |-> "png"]
      [] s = ObsFull ->
           [title |-> "AWS Observability Architecture with OpenTelemetry",
            filename |-> "observability-architecture", outformat |-> "png"]

\* The file render writes: <filename>.<outformat>.
OutPath(s) == DiagramArgs(s).filename \o "." \o DiagramArgs(s).outformat

Paths == {OutPath(s) : s \in Scripts}

NoFile == [by |-> "", title |-> "", complete |-> FALSE]

----------------------------------------------------------------------------
(* Data of aws-fargate-architecture.py.                                    *)

microservices ==
    << "pos-main", "catalog", "customer", "invoice", "work-order",
       "price", "shop-manager", "inquiry", "order", "accounting",
       "events", "event-receiver", "image", "vehicle-inventory",
       "inventory", "security-service", "people", "location",
       "service-discovery" >>

elasticache_services ==
    << "vehicle-fitment", "vehicle-reference-nhtsa", "vehicle-reference-carapi" >>

all_services == microservices \o elasticache_services

----------------------------------------------------------------------------
(* Statements.  Every statement carries the source line it stands for.     *)

NoAttrs == [color |-> "", style |-> "", label |-> ""]

Attrs(c, s, l) == [color |-> c, style |-> s, label |-> l]

\* A reference to a variable (idx = 0), to the concatenation var + var2, or
\* to element idx of either (the loop variable of a for loop over it).
Ref(v) == [var |-> v, var2 |-> "", idx |-> 0]

Elem(v, i) == [var |-> v, var2 |-> "", idx |-> i]

Cat(v, w) == [var |-> v, var2 |-> w, idx |-> 0]

CatElem(v, w, i) == [var |-> v, var2 |-> w, idx |-> i]

Blank ==
    [op |-> "", line |-> 0, var |-> "", kind |-> "", label |-> "",
     src |-> Ref(""), dst |-> Ref(""), eop |-> "", attrs |-> NoAttrs,
     needle |-> ""]

\* var = Kind(label)
SNode(ln, v, k, l) ==
    [Blank EXCEPT !.op = "node", !.line = ln, !.var = v, !.kind = k, !.label = l]

\* var = []
SList(ln, v) == [Blank EXCEPT !.op = "list", !.line = ln, !.var = v]

\* var.append(Kind(label)), or one element of a list display
SAppend(ln, v, k, l) ==
    [Blank EXCEPT !.op = "append", !.line = ln, !.var = v, !.kind = k, !.label = l]

\* with Cluster(label):
SEnter(ln, l) == [Blank EXCEPT !.op = "enter", !.line = ln, !.label = l]

\* the end of a with Cluster block
SLeave(ln) == [Blank EXCEPT !.op = "leave", !.line = ln]

\* src >> dst
SEdge(ln, s, d) ==
    [Blank EXCEPT !.op = "edge", !.line = ln, !.src = s, !.dst = d, !.eop = ">>"]

\* src >> Edge(color=, style=, label=) >> dst
SEdgeA(ln, s, d, a) ==
    [Blank EXCEPT !.op = "edge", !.line = ln, !.src = s, !.dst = d, !.eop = ">>",
                  !.attrs = a]

\* src - Edge(color=, style=, label=) - dst
SLink(ln, s, d, a) ==
    [Blank EXCEPT !.op = "edge", !.line = ln, !.src = s, !.dst = d, !.eop = "-",
                  !.attrs = a]

\* src >> [s for s in dst if needle in s.label.lower()]
SEdgeIf(ln, s, d, n) ==
    [Blank EXCEPT !.op = "edgeif", !.line = ln, !.src = s, !.dst = d, !.eop = ">>",
                  !.needle = n]

----------------------------------------------------------------------------
(* aws-fargate-architecture.py, lines 32-98.                               *)

\* Lines 34-51: users, the Frontend cluster and its edges, API Gateway, WAF.
FargateFront ==
    << SNode(34, "users", "Users", "End Users"),
       SEnter(36, "AWS Cloud"),
       SEnter(38, "Frontend"),
       SNode(39, "cloudfront", "CloudFront", "CloudFront"),
       SNode(40, "s3", "S3", "S3 Static Website"),
       SNode(41, "frontend", "Fargate", "Vue.js Frontend"),
       SEdge(43, Ref("users"), Ref("cloudfront")),
       SEdge(43, Ref("cloudfront"), Ref("s3")),
       SEdge(44, Ref("users"), Ref("cloudfront")),
       SEdge(44, Ref("cloudfront"), Ref("frontend")),
       SLeave(44),
       SNode(47, "api_gateway", "APIGateway", "API Gateway"),
       SNode(48, "waf", "WAF", "WAF"),
       SEdge(50, Ref("frontend"), Ref("api_gateway")),
       SLink(51, Ref("waf"), Ref("api_gateway"), Attrs("", "dotted", "")) >>

\* Lines 53-66: the service nodes, one per entry of the two lists.
FargateServices ==
    << SEnter(53, "VPC"),
       SEnter(54, "ECS Cluster"),
       SEnter(55, "Auto Scaling"),
       SEnter(57, "Fargate Services (DynamoDB)"),
       SList(58, "dynamo_services") >>
    \o [i \in 1..Len(microservices) |->
          SAppend(60, "dynamo_services", "Fargate", microservices[i])]
    \o << SLeave(60),
          SEnter(63, "Fargate Services (ElastiCache)"),
          SList(64, "elastic_services") >>
    \o [i \in 1..Len(elasticache_services) |->
          SAppend(66, "elastic_services", "Fargate", elasticache_services[i])]
    \o << SLeave(66), SLeave(66), SLeave(66) >>

\* Lines 68-80: data layer, event infrastructure, IAM; the VPC block ends.
FargateInfra ==
    << SEnter(69, "Data Layer"),
       SNode(70, "dynamodb", "Dynamodb", "DynamoDB Tables"),
       SNode(71, "elasticache", "ElastiCache", "ElastiCache Redis"),
       SLeave(71),
       SEnter(74, "Event Infrastructure"),
       SNode(75, "sns", "SNS", "SNS"),
       SNode(76, "sqs", "SQS", "SQS"),
       SNode(77, "events", "Cloudwatch", "CloudWatch Events"),
       SLeave(77),
       SNode(80, "iam", "IAM", "IAM Roles"),
       SLeave(80) >>

\* Lines 83-84: for service in dynamo_services + elastic_services.
FargateGatewayEdges ==
    [i \in 1..Len(all_services) |->
        SEdge(84, Ref("api_gateway"),
              CatElem("dynamo_services", "elastic_services", i))]

\* FargateStoreEdges with the first loop running over all services.
FargateStoreEdgesAll ==
    [i \in 1..Len(all_services) |->
        SEdge(88, CatElem("dynamo_services", "elastic_services", i), Ref("dynamodb"))]
    \o [i \in 1..Len(elasticache_services) |->
        SEdge(91, Elem("elastic_services", i), Ref("elasticache"))]

\* Lines 87-91: each service to its data store.
FargateStoreEdges ==
    [i \in 1..Len(microservices) |->
        SEdge(88, Elem("dynamo_services", i), Ref("dynamodb"))]
    \o [i \in 1..Len(elasticache_services) |->
        SEdge(91, Elem("elastic_services", i), Ref("elasticache"))]

\* Lines 94-98: every service to SNS, SNS to SQS, SQS to the event services;
\* the AWS Cloud block ends.
FargateEventEdges ==
    [i \in 1..Len(all_services) |->
        SEdge(95, CatElem("dynamo_services", "elastic_services", i), Ref("sns"))]
    \o << SEdge(97, Ref("sns"), Ref("sqs")),
          SEdgeIf(98, Ref("sqs"), Cat("dynamo_services", "elastic_services"),
                  "event"),
          SLeave(98) >>

FargateScript ==
    FargateFront \o FargateServices \o FargateInfra \o FargateGatewayEdges
    \o FargateStoreEdges \o FargateEventEdges

----------------------------------------------------------------------------
(* aws_observability_diagram.py, lines 11-70.                              *)

AwsObsNodes ==
    << SNode(14, "lb", "ELB", "Application Load Balancer"),
       SEnter(17, "Application Services (ECS Fargate)"),
       SList(18, "services"),
       SAppend(19, "services", "Fargate", "Service 1"),
       SAppend(20, "services", "Fargate", "Service 2"),
       SAppend(21, "services", "Fargate", "Service 3"),
       SLeave(22),
       SEnter(25, "OpenTelemetry Collector Cluster"),
       SList(27, "otel_collectors"),
       SAppend(28, "otel_collectors", "OpenTelemetry", "OTel Collector 1"),
       SAppend(29, "otel_collectors", "OpenTelemetry", "OTel Collector 2"),
       SLeave(30),
       SEnter(33, "Observability Stack (ECS Fargate)"),
       SEnter(34, "Tracing"),
       SNode(35, "jaeger", "Jaeger", "Jaeger"),
       SLeave(35),
       SEnter(37, "Metrics"),
       SNode(38, "prometheus", "Prometheus", "Prometheus"),
       SLeave(38),
       SEnter(40, "Logging"),
       SNode(42, "loki", "Loki", "Loki"),
       SLeave(42),
       SEnter(44, "Visualization"),
       SNode(45, "grafana", "Grafana", "Grafana"),
       SLeave(45),
       SLeave(45),
       SEnter(48, "Storage Layer"),
       SNode(49, "metrics_db", "Dynamodb", "Metrics Storage"),
       SNode(50, "logs_storage", "S3", "Logs Storage"),
       SNode(51, "traces_cache", "ElastiCache", "Traces Storage"),
       SLeave(51) >>

\* Lines 54-60: the two for loops (3 services, 2 collectors).
AwsObsLoops ==
    [i \in 1..3 |->
        SEdgeA(55, Elem("services", i), Ref("otel_collectors"),
               Attrs("darkgreen", "", ""))]
    \o << SEdgeA(58, Elem("otel_collectors", 1), Ref("jaeger"), Attrs("blue", "", "")),
          SEdgeA(59, Elem("otel_collectors", 1), Ref("prometheus"), Attrs("orange", "", "")),
          SEdgeA(60, Elem("otel_collectors", 1), Ref("loki"), Attrs("green", "", "")),
          SEdgeA(58, Elem("otel_collectors", 2), Ref("jaeger"), Attrs("blue", "", "")),
          SEdgeA(59, Elem("otel_collectors", 2), Ref("prometheus"), Attrs("orange", "", "")),
          SEdgeA(60, Elem("otel_collectors", 2), Ref("loki"), Attrs("green", "", "")) >>

AwsObsEdges ==
    << SEdge(62, Ref("jaeger"), Ref("traces_cache")),
       SEdge(63, Ref("prometheus"), Ref("metrics_db")),
       SEdge(64, Ref("loki"), Ref("logs_storage")),
       SEdgeA(66, Ref("jaeger"), Ref("grafana"), Attrs("darkblue", "", "")),
       SEdgeA(67, Ref("prometheus"), Ref("grafana"), Attrs("darkblue", "", "")),
       SEdgeA(68, Ref("loki"), Ref("grafana"), Attrs("darkblue", "", "")),
       SEdge(70, Ref("lb"), Ref("grafana")) >>

AwsObsScript == AwsObsNodes \o AwsObsLoops \o AwsObsEdges

----------------------------------------------------------------------------
(* observability-architecture-simple.py, lines 9-54.                       *)

ObsSimpleNodes ==
    << SNode(12, "lb", "ELB", "Application Load Balancer"),
       SEnter(15, "Application Services (ECS Fargate)"),
       SList(16, "app_services"),
       SAppend(17, "app_services", "Fargate", "Microservice 1"),
       SAppend(18, "app_services", "Fargate", "Microservice 2"),
       SLeave(19),
       SEnter(22, "OpenTelemetry Collector"),
       SNode(23, "otel", "Fargate", "OpenTelemetry\nCollector Gateway"),
       SLeave(23),
       SEnter(26, "Observability Stack"),
       SNode(27, "jaeger", "Jaeger", "Jaeger"),
       SNode(28, "prometheus", "Prometheus", "Prometheus"),
       SNode(29, "loki", "Fargate", "Loki"),
       SNode(30, "grafana", "Grafana", "Grafana"),
       SLeave(30),
       SEnter(33, "Storage"),
       SNode(34, "metrics_store", "Dynamodb", "Metrics Storage"),
       SNode(35, "logs_store", "S3", "Logs Storage"),
       SNode(36, "traces_store", "ElastiCache", "Traces Storage"),
       SLeave(36) >>

ObsSimpleEdges ==
    << SEdge(40, Elem("app_services", 1), Ref("otel")),
       SEdge(40, Elem("app_services", 2), Ref("otel")),
       SEdge(42, Ref("otel"), Ref("jaeger")),
       SEdge(43, Ref("otel"), Ref("prometheus")),
       SEdge(44, Ref("otel"), Ref("loki")),
       SEdge(46, Ref("jaeger"), Ref("traces_store")),
       SEdge(47, Ref("prometheus"), Ref("metrics_store")),
       SEdge(48, Ref("loki"), Ref("logs_store")),
       SEdge(50, Ref("jaeger"), Ref("grafana")),
       SEdge(51, Ref("prometheus"), Ref("grafana")),
       SEdge(52, Ref("loki"), Ref("grafana")),
       SEdge(54, Ref("lb"), Ref("grafana")) >>

\* ObsSimpleScript with lb >> grafana written before the Storage cluster.
ObsSimpleScriptEdgeEarly ==
    SubSeq(ObsSimpleNodes, 1, 15) \o << SEdge(54, Ref("lb"), Ref("grafana")) >>
    \o SubSeq(ObsSimpleNodes, 16, Len(ObsSimpleNodes))
    \o SubSeq(ObsSimpleEdges, 1, Len(ObsSimpleEdges) - 1)

ObsSimpleScript == ObsSimpleNodes \o ObsSimpleEdges

----------------------------------------------------------------------------
(* observability-architecture.py, lines 12-70.                             *)

ObsFullNodes ==
    << SNode(15, "lb", "ELB", "Application Load Balancer"),
       SEnter(18, "Application Services (ECS Fargate)"),
       SList(19, "app_services"),
       SAppend(20, "app_services", "Fargate", "Service 1"),
       SAppend(21, "app_services", "Fargate", "Service 2"),
       SAppend(22, "app_services", "Fargate", "Service 3"),
       SLeave(23),
       SEnter(26, "OpenTelemetry Collector (ECS Fargate)"),
       SNode(27, "otel_collector", "Custom", "OpenTelemetry\nCollector Gateway"),
       SLeave(27),
       SEnter(30, "Observability Stack (ECS Fargate)"),
       SNode(32, "jaeger", "Jaeger", "Jaeger"),
       SNode(35, "prometheus", "Prometheus", "Prometheus"),
       SNode(38, "loki", "Custom", "Loki"),
       SNode(41, "grafana", "Grafana", "Grafana"),
       SLeave(41),
       SEnter(44, "Storage"),
       SNode(46, "prometheus_storage", "Dynamodb", "Prometheus\nMetrics Storage"),
       SNode(49, "loki_storage", "S3", "Loki Log Storage"),
       SNode(52, "jaeger_storage", "ElastiCache", "Jaeger\nTrace Storage"),
       SLeave(52) >>

ObsFullEdges ==
    [i \in 1..3 |->
        SEdgeA(56, Elem("app_services", i), Ref("otel_collector"),
               Attrs("darkgreen", "dashed", "telemetry data"))]
    \o << SEdgeA(58, Ref("lb"), Ref("grafana"), Attrs("", "", "queries")),
          SEdgeA(60, Ref("otel_collector"), Ref("jaeger"), Attrs("", "", "traces")),
          SEdgeA(61, Ref("otel_collector"), Ref("prometheus"), Attrs("", "", "metrics")),
          SEdgeA(62, Ref("otel_collector"), Ref("loki"), Attrs("", "", "logs")),
          SEdge(64, Ref("jaeger"), Ref("jaeger_storage")),
          SEdge(65, Ref("prometheus"), Ref("prometheus_storage")),
          SEdge(66, Ref("loki"), Ref("loki_storage")),
          SEdgeA(68, Ref("jaeger"), Ref("grafana"), Attrs("blue", "", "")),
          SEdgeA(69, Ref("prometheus"), Ref("grafana"), Attrs("blue", "", "")),
          SEdgeA(70, Ref("loki"), Ref("grafana"), Attrs("blue", "", "")) >>

ObsFullScript == ObsFullNodes \o ObsFullEdges

Program(s) ==
    CASE s = Fargate -> FargateScript
      [] s = AwsObs -> AwsObsScript
      [] s = ObsSimple -> ObsSimpleScript
      [] s = ObsFull -> ObsFullScript

----------------------------------------------------------------------------
(* str.lower() and the `in` test on strings (line 98 of the Fargate        *)
(* script).                                                                *)

Upper == "ABCDEFGHIJKLMNOPQRSTUVWXYZ"

LowerAlpha == "abcdefghijklmnopqrstuvwxyz"

LowerChar(c) ==
    IF \E k \in 1..Len(Upper) : SubSeq(Upper, k, k) = c
    THEN LET k == CHOOSE k \in 1..Len(Upper) : SubSeq(Upper, k, k) = c
         IN  SubSeq(LowerAlpha, k, k)
    ELSE c

RECURSIVE LowerFrom(_, _)
LowerFrom(s, i) ==
    IF i > Len(s) THEN "" ELSE LowerChar(SubSeq(s, i, i)) \o LowerFrom(s, i + 1)

\* s.lower()
Lower(s) == LowerFrom(s, 1)

\* Contains written with == in place of in.
ContainsWhole(s, needle) == s = needle

\* needle in s
Contains(s, needle) ==
    \E i \in 1..(Len(s) - Len(needle) + 1) :
        SubSeq(s, i, i + Len(needle) - 1) = needle

----------------------------------------------------------------------------
(* The graph operations the statements perform.                            *)

EmptyBody == [nodes |-> {}, subs |-> {}]

EmptyEnv == [v \in {} |-> <<>>]

NodeIds == {nodes[k].id : k \in 1..Len(nodes)}

ClusterIds == 1..Len(clusters)

\* The node a constructor call makes: a fresh id, owned by the open cluster.
NewNode(ns, c, k, l) == [id |-> Len(ns) + 1, label |-> l, kind |-> k, cluster |-> c]

\* AddNode with the node left out of the diagram (a node constructed outside
\* the Diagram block's context).
AddNodeLost(ns, n) == ns

\* The node becomes part of the diagram.
AddNode(ns, n) == Append(ns, n)

\* The node is drawn in the body of cluster c, or of the diagram when c = 0.
PutNodeClusters(cl, c, id) ==
    IF c = 0 THEN cl ELSE [cl EXCEPT ![c].nodes = @ \cup {id}]

PutNodeRoot(rt, c, id) ==
    IF c = 0 THEN [rt EXCEPT !.nodes = @ \cup {id}] ELSE rt

\* NewCluster reading the open cluster after the new one was made current:
\* the cluster is its own parent.
NewClusterSelfParent(cl, c, l) ==
    [label |-> l, parent |-> Len(cl) + 1, nodes |-> {}, subs |-> {}]

\* Cluster.__enter__: the cluster open at that moment is the parent.
NewCluster(cl, c, l) == [label |-> l, parent |-> c, nodes |-> {}, subs |-> {}]

\* Cluster.__exit__: cluster c becomes a subgraph of its parent's body.
AttachClusters(cl, c) ==
    IF cl[c].parent = 0 THEN cl ELSE [cl EXCEPT ![cl[c].parent].subs = @ \cup {c}]

AttachRoot(cl, rt, c) ==
    IF cl[c].parent = 0 THEN [rt EXCEPT !.subs = @ \cup {c}] ELSE rt

\* Leaving every open cluster from c outwards (an exception unwinding the
\* nested with blocks).  n bounds the walk by the number of clusters.
RECURSIVE Unwind(_, _, _, _)
Unwind(cl, rt, c, n) ==
    IF c = 0 \/ n = 0
    THEN [clusters |-> cl, root |-> rt]
    ELSE Unwind(AttachClusters(cl, c), AttachRoot(cl, rt, c), cl[c].parent, n - 1)

\* Direction with - treated like >>.
DirectionAlwaysForward(op) == "forward"

\* Edge.attrs: the drawn direction of an edge built by operator op.
Direction(op) == IF op = ">>" THEN "forward" ELSE "none"

\* Node.connect: the edge from node s to node t.
EdgeRec(s, t, op, a) ==
    [src |-> s, dst |-> t, dir |-> Direction(op),
     color |-> a.color, style |-> a.style, label |-> a.label]

\* The node ids a reference stands for.
Resolve(e, r) ==
    LET l == e[r.var] \o (IF r.var2 = "" THEN <<>> ELSE e[r.var2])
    IN  IF r.idx = 0 THEN l ELSE <<l[r.idx]>>

\* Binding a variable.
Bind(e, v, val) == [x \in DOMAIN e \cup {v} |-> IF x = v THEN val ELSE e[x]]

\* src op dst, dst a node or a list of nodes: one edge per target, in order.
Connect(es, s, ts, op, a) ==
    es \o [i \in 1..Len(ts) |-> EdgeRec(s, ts[i], op, a)]

\* [s for s in ts if needle in s.label.lower()]
Matching(ns, ts, needle) ==
    SelectSeq(ts, LAMBDA t : Contains(Lower(ns[t].label), needle))

\* The image render writes for script s.
Image(s, e) ==
    [by |-> s, title |-> DiagramArgs(s).title, complete |-> (e = "none")]

----------------------------------------------------------------------------
(* The state machine.                                                      *)

Init ==
    /\ phase = "idle"
    /\ script = ""
    /\ pc = 0
    /\ nodes = <<>>
    /\ clusters = <<>>
    /\ root = EmptyBody
    /\ cur = 0
    /\ edges = <<>>
    /\ env = EmptyEnv
    /\ err = "none"
    /\ renders = 0
    /\ written = {}
    /\ files = [p \in Paths |-> NoFile]

Running == phase = "building" /\ pc <= Len(Program(script))

Stmt == Program(script)[pc]

\* python <script>: Diagram(...) is constructed and entered with an empty graph.
Start(s) ==
    /\ phase = "idle"
    /\ phase' = "building"
    /\ script' = s
    /\ pc' = 1
    /\ UNCHANGED <<nodes, clusters, root, cur, edges, env, err, renders,
                   written, files>>

\* var = Kind(label) and var.append(Kind(label))
DeclareNode ==
    /\ Running
    /\ Stmt.op \in {"node", "append"}
    /\ LET n == NewNode(nodes, cur, Stmt.kind, Stmt.label)
       IN  /\ nodes' = AddNode(nodes, n)
           /\ clusters' = PutNodeClusters(clusters, cur, n.id)
           /\ root' = PutNodeRoot(root, cur, n.id)
           /\ env' = IF Stmt.op = "node"
                     THEN Bind(env, Stmt.var, <<n.id>>)
                     ELSE Bind(env, Stmt.var, Append(env[Stmt.var], n.id))
    /\ pc' = pc + 1
    /\ UNCHANGED <<phase, script, cur, edges, err, renders, written, files>>

\* var = []
NewList ==
    /\ Running
    /\ Stmt.op = "list"
    /\ env' = Bind(env, Stmt.var, <<>>)
    /\ pc' = pc + 1
    /\ UNCHANGED <<phase, script, nodes, clusters, root, cur, edges, err,
                   renders, written, files>>

\* with Cluster(label):
EnterCluster ==
    /\ Running
    /\ Stmt.op = "enter"
    /\ clusters' = Append(clusters, NewCluster(clusters, cur, Stmt.label))
    /\ cur' = Len(clusters) + 1
    /\ pc' = pc + 1
    /\ UNCHANGED <<phase, script, nodes, root, edges, env, err, renders,
                   written, files>>

\* the end of a with Cluster block
LeaveCluster ==
    /\ Running
    /\ Stmt.op = "leave"
    /\ clusters' = AttachClusters(clusters, cur)
    /\ root' = AttachRoot(clusters, root, cur)
    /\ cur' = clusters[cur].parent
    /\ pc' = pc + 1
    /\ UNCHANGED <<phase, script, nodes, edges, env, err, renders, written,
                   files>>

\* src >> dst, src >> Edge(...) >> dst, src - Edge(...) - dst
ConnectNodes ==
    /\ Running
    /\ Stmt.op = "edge"
    /\ edges' = Connect(edges, Resolve(env, Stmt.src)[1], Resolve(env, Stmt.dst),
                        Stmt.eop, Stmt.attrs)
    /\ pc' = pc + 1
    /\ UNCHANGED <<phase, script, nodes, clusters, root, cur, env, err,
                   renders, written, files>>

\* src >> [s for s in dst if needle in s.label.lower()]
ConnectMatching ==
    /\ Running
    /\ Stmt.op = "edgeif"
    /\ edges' = Connect(edges, Resolve(env, Stmt.src)[1],
                        Matching(nodes, Resolve(env, Stmt.dst), Stmt.needle),
                        Stmt.eop, Stmt.attrs)
    /\ pc' = pc + 1
    /\ UNCHANGED <<phase, script, nodes, clusters, root, cur, env, err,
                   renders, written, files>>

\* An exception raised while a statement of the block runs (an interrupt, a
\* failing constructor): the statement has no effect, the open with blocks
\* are left from the innermost outwards, and control reaches the exit of
\* the Diagram block.
Raise ==
    /\ Running
    /\ err' = "body"
    /\ LET u == Unwind(clusters, root, cur, Len(clusters))
       IN  clusters' = u.clusters /\ root' = u.root
    /\ cur' = 0
    /\ pc' = Len(Program(script)) + 1
    /\ UNCHANGED <<phase, script, nodes, edges, env, renders, written, files>>

AtExit == phase = "building" /\ pc = Len(Program(script)) + 1

\* Diagram.__exit__: render the graph as it stands; the image replaces
\* whatever file has its path.
ExitRender ==
    /\ AtExit
    /\ renders' = renders + 1
    /\ files' = [files EXCEPT ![OutPath(script)] = Image(script, err)]
    /\ written' = written \cup {OutPath(script)}
    /\ phase' = "done"
    /\ UNCHANGED <<script, pc, nodes, clusters, root, cur, edges, env, err>>

\* Diagram.__exit__ when the rendering backend fails: no image is written.
ExitRenderFails ==
    /\ AtExit
    /\ renders' = renders + 1
    /\ err' = IF err = "none" THEN "backend" ELSE err
    /\ phase' = "done"
    /\ UNCHANGED <<script, pc, nodes, clusters, root, cur, edges, env, written,
                   files>>

\* The process ends: its graph is gone, the working directory stays.
ProcessExit ==
    /\ phase = "done"
    /\ phase' = "idle"
    /\ script' = ""
    /\ pc' = 0
    /\ nodes' = <<>>
    /\ clusters' = <<>>
    /\ root' = EmptyBody
    /\ cur' = 0
    /\ edges' = <<>>
    /\ env' = EmptyEnv
    /\ err' = "none"
    /\ renders' = 0
    /\ written' = {}
    /\ UNCHANGED files

Next ==
    \/ \E s \in Scripts : Start(s)
    \/ DeclareNode
    \/ NewList
    \/ EnterCluster
    \/ LeaveCluster
    \/ ConnectNodes
    \/ ConnectMatching
    \/ Raise
    \/ ExitRender
    \/ ExitRenderFails
    \/ ProcessExit

Spec == Init /\ [][Next]_vars

\* Runs in which nothing fails: no exception in the block, rendering works.
NextNoFault ==
    \/ \E s \in Scripts : Start(s)
    \/ DeclareNode
    \/ NewList
    \/ EnterCluster
    \/ LeaveCluster
    \/ ConnectNodes
    \/ ConnectMatching
    \/ ExitRender
    \/ ProcessExit

SpecNoFault == Init /\ [][NextNoFault]_vars

----------------------------------------------------------------------------
(* Properties.                                                             *)

Container(c) == IF c = 0 THEN root ELSE clusters[c]

\* The bodies node n is drawn in, and the bodies cluster k is a subgraph of.
Holders(n) == {c \in 0..Len(clusters) : n \in Container(c).nodes}

SubHolders(k) == {c \in 0..Len(clusters) : k \in Container(c).subs}

\* Following parent links from c reaches the diagram without a revisit.
RECURSIVE ReachesRoot(_, _)
ReachesRoot(c, seen) ==
    IF c = 0 THEN TRUE
    ELSE IF c \in seen \/ c \notin ClusterIds THEN FALSE
    ELSE ReachesRoot(clusters[c].parent, seen \cup {c})

\* The clusters whose with block is open: cur and its ancestors.
RECURSIVE OpenFrom(_, _)
OpenFrom(c, n) ==
    IF c = 0 \/ n = 0 THEN {} ELSE {c} \cup OpenFrom(clusters[c].parent, n - 1)

OpenClusters == OpenFrom(cur, Len(clusters))

\* Number of clusters around body c.
RECURSIVE Depth(_, _)
Depth(c, n) == IF c = 0 \/ n = 0 THEN 0 ELSE 1 + Depth(clusters[c].parent, n - 1)

LabelOf(id) == nodes[id].label

CountEdges(s, t) ==
    Cardinality({i \in 1..Len(edges) : edges[i].src = s /\ edges[i].dst = t})

\* The run executed every statement of the script and left the block.
Finished(s) == phase = "done" /\ script = s /\ err # "body"

\* C1: in every state of every run, the source and the target of every edge
\* of the edge sequence are nodes of the diagram.
C1_EdgeEndpointsExist ==
    \A i \in 1..Len(edges) :
        edges[i].src \in NodeIds /\ edges[i].dst \in NodeIds

C1_Witness ==
    /\ Finished(Fargate)
    /\ Len(edges) > Len(all_services)
    /\ \E i \in 1..Len(edges) : LabelOf(edges[i].src) = "SQS"

\* C2: cluster membership is a tree rooted at the diagram: a cluster is a
\* subgraph of at most one body, which is its parent (and of exactly that
\* one once its block is closed); a node is drawn in exactly one body, its
\* owning cluster or the diagram; parent links from any node or cluster
\* reach the diagram without revisiting a cluster.
C2_ClusterTree ==
    /\ \A k \in ClusterIds :
          /\ clusters[k].parent \in 0..Len(clusters)
          /\ SubHolders(k) \subseteq {clusters[k].parent}
          /\ (k \notin OpenClusters => SubHolders(k) = {clusters[k].parent})
          /\ ReachesRoot(k, {})
    /\ \A n \in 1..Len(nodes) :
          /\ Holders(nodes[n].id) = {nodes[n].cluster}
          /\ ReachesRoot(nodes[n].cluster, {})

\* The five-level nesting AWS Cloud > VPC > ECS Cluster > Auto Scaling >
\* Fargate Services has been built.
C2_Witness ==
    /\ Finished(Fargate)
    /\ \E n \in 1..Len(nodes) :
          /\ Depth(nodes[n].cluster, Len(clusters)) = 5
          /\ clusters[nodes[n].cluster].label = "Fargate Services (DynamoDB)"

ObsScripts == {AwsObs, ObsSimple, ObsFull}

\* Within a run of a script of S, no node or cluster is declared once the
\* edge sequence is non-empty.
NoDeclAfterEdge(S) ==
    (script \in S /\ script' = script /\ Len(edges) > 0)
        => (Len(nodes') = Len(nodes) /\ Len(clusters') = Len(clusters))

\* Render is called once per run, when the run is done.
RenderedOnce ==
    /\ renders <= 1
    /\ (phase = "done") <=> (renders = 1)

\* The render step and every later step of the run leave the graph alone.
FrozenAfterRender == (renders' > 0 /\ phase' # "idle") => graph' = graph

\* C3 as stated: in every run no node or cluster is declared after the first
\* edge, render happens once, after the last edge, and the graph is not
\* changed afterwards.
C3_Original ==
    /\ []RenderedOnce
    /\ [][NoDeclAfterEdge(Scripts) /\ FrozenAfterRender]_vars

\* C3 amended: in every run render is called exactly once, at the exit of
\* the Diagram block after the last edge declaration of the run, and the
\* graph is not changed afterwards; in the three observability scripts no
\* node or cluster is declared after the first edge (the Fargate script
\* declares nodes and clusters after its first edges).
C3_SinglePass ==
    /\ []RenderedOnce
    /\ [][NoDeclAfterEdge(ObsScripts) /\ FrozenAfterRender]_vars

C3_Witness ==
    /\ Finished(ObsSimple)
    /\ renders = 1
    /\ Len(edges) = Len(ObsSimpleEdges)

\* C6 as stated: after an error during the declarations render is not
\* called and the run writes no image file.
C6_NoPartialOutput == err = "body" => (renders = 0 /\ written = {})

\* C7 as stated: an image in the working directory is changed only by a run
\* of the script that wrote it, and a run writes only its own output path.
C7_RunsIndependent ==
    [][\A p \in Paths :
          files'[p] # files[p] =>
              /\ p = OutPath(script)
              /\ (files[p] # NoFile => files[p].by = script)]_vars

\* C8 as stated: every edge is an ordered pair of nodes drawn forward, from
\* source to target.
C8_AllDirected ==
    \A i \in 1..Len(edges) :
        /\ edges[i].src \in NodeIds /\ edges[i].dst \in NodeIds
        /\ edges[i].dir = "forward"

\* C8 amended: every edge is an ordered (source, target) pair of nodes, drawn
\* forward, except the WAF - API Gateway edge of the Fargate script, which
\* is drawn without direction.
C8_DirectedExceptWaf ==
    \A i \in 1..Len(edges) :
        /\ edges[i].src \in NodeIds /\ edges[i].dst \in NodeIds
        /\ edges[i].dir \in {"forward", "none"}
        /\ (edges[i].dir = "none") <=>
              /\ script = Fargate
              /\ LabelOf(edges[i].src) = "WAF"
              /\ LabelOf(edges[i].dst) = "API Gateway"

C8_Witness ==
    /\ Finished(Fargate)
    /\ \E i \in 1..Len(edges) : edges[i].dir = "none"
    /\ \E i \in 1..Len(edges) : edges[i].dir = "forward"

\* C9: in the finished Fargate diagram there are 19 + 3 service nodes, and
\* each has exactly one edge from API Gateway, exactly one edge to SNS and
\* exactly one edge to a data store: DynamoDB and not ElastiCache for a
\* service of microservices, ElastiCache and not DynamoDB for a service of
\* elasticache_services.
C9_ServiceWiring ==
    Finished(Fargate) =>
        LET dyn == env["dynamo_services"]
            el == env["elastic_services"]
            gw == env["api_gateway"][1]
            sns == env["sns"][1]
            ddb == env["dynamodb"][1]
            ec == env["elasticache"][1]
        IN  /\ Len(dyn) = 19 /\ Len(el) = 3
            /\ Cardinality({dyn[i] : i \in 1..Len(dyn)}
                           \cup {el[i] : i \in 1..Len(el)}) = 22
            /\ \A i \in 1..Len(dyn) :
                  /\ LabelOf(dyn[i]) = microservices[i]
                  /\ CountEdges(gw, dyn[i]) = 1
                  /\ CountEdges(dyn[i], sns) = 1
                  /\ CountEdges(dyn[i], ddb) = 1
                  /\ CountEdges(dyn[i], ec) = 0
            /\ \A i \in 1..Len(el) :
                  /\ LabelOf(el[i]) = elasticache_services[i]
                  /\ CountEdges(gw, el[i]) = 1
                  /\ CountEdges(el[i], sns) = 1
                  /\ CountEdges(el[i], ec) = 1
                  /\ CountEdges(el[i], ddb) = 0

C9_Witness ==
    /\ Finished(Fargate)
    /\ Len(env["dynamo_services"]) = Len(microservices)
    /\ Len(env["elastic_services"]) = Len(elasticache_services)
    /\ \E i \in 1..Len(edges) : LabelOf(edges[i].dst) = "ElastiCache Redis"

\* C10: in the finished Fargate diagram the edges leaving SQS target exactly
\* the service nodes whose lower-cased label contains "event", which are
\* the services "events" and "event-receiver", one edge each; those
\* services, and no other service, lie on a cycle
\* service -> SNS -> SQS -> service.
C10_EventCycle ==
    Finished(Fargate) =>
        LET svc == {env["dynamo_services"][i] : i \in 1..Len(env["dynamo_services"])}
                   \cup {env["elastic_services"][i] :
                            i \in 1..Len(env["elastic_services"])}
            sns == env["sns"][1]
            sqs == env["sqs"][1]
            targets == {edges[i].dst : i \in {j \in 1..Len(edges) : edges[j].src = sqs}}
            named == {n \in NodeIds : LabelOf(n) \in {"events", "event-receiver"}}
            OnCycle(s) == /\ CountEdges(s, sns) > 0
                          /\ CountEdges(sns, sqs) > 0
                          /\ CountEdges(sqs, s) > 0
        IN  /\ targets = named
            /\ targets = {s \in svc : Contains(Lower(LabelOf(s)), "event")}
            /\ Cardinality(targets) = 2
            /\ \A s \in targets : CountEdges(sqs, s) = 1
            /\ \A s \in svc : OnCycle(s) <=> s \in targets

C10_Witness ==
    /\ Finished(Fargate)
    /\ \E i \in 1..Len(edges) :
          /\ LabelOf(edges[i].src) = "SQS"
          /\ LabelOf(edges[i].dst) = "event-receiver"

====
